---------------------------- MODULE Spec2Model ----------------------------
(***************************************************************************)
(* A model of desc.perturbations.perturb and of the part of                *)
(* desc.configuration.Configuration it uses.                               *)
(*                                                                         *)
(* One call of perturb() is played step by step (pc follows the statements *)
(* of the function).  The heap holds the equilibria, their objectives and  *)
(* their children lists as separate objects, so that aliasing between an   *)
(* equilibrium and its copy is visible.                                    *)
(*                                                                         *)
(* Numbers are exact rationals <<n, d>> (d > 0, lowest terms).  The state  *)
(* vector is x = <<R_lmn, Z_lmn, L_lmn>> with one mode each; the boundary  *)
(* constraint ties the first two to the boundary coefficients, so the      *)
(* reduced coordinate y has one component, the residual has one component  *)
(* and Jx is a 1 x 1 matrix.  np.linalg.norm of a one-component vector is  *)
(* its absolute value, so every norm below is exact.                       *)
(*                                                                         *)
(* The objective, the boundary constraint, Equilibrium.build and           *)
(* trust_region_step_exact are imported by perturbations.py from modules   *)
(* whose source is not part of the files modelled here; they are modelled  *)
(* from the written specification of their contracts.                      *)
(***************************************************************************)
EXTENDS Integers, Sequences, FiniteSets, TLC

(***************************************************************************)
(* Bounds of the model.                                                    *)
(***************************************************************************)
\* at most this many of the six delta arguments of one call are not None
MaxDeltaArgs == 2
\* at most this many setter calls follow a Configuration.copy()
MaxSetterCalls == 2

(***************************************************************************)
(* Exact rational arithmetic.                                              *)
(***************************************************************************)
None == <<>>

Abs(n) == IF n < 0 THEN -n ELSE n

RECURSIVE GCD(_, _)
GCD(a, b) == IF b = 0 THEN a ELSE GCD(b, a % b)

Rat(n, d) ==
    LET g == GCD(Abs(n), Abs(d))
        sg == IF d < 0 THEN -1 ELSE 1
    IN  <<(sg * n) \div g, (sg * d) \div g>>

Q(n) == <<n, 1>>
RZero == <<0, 1>>
RAdd(a, b) ==
    LET g == GCD(a[2], b[2])
    IN  Rat(a[1] * (b[2] \div g) + b[1] * (a[2] \div g), (a[2] \div g) * b[2])
RNeg(a) == <<-a[1], a[2]>>
RSub(a, b) == RAdd(a, RNeg(b))
RMul(a, b) ==
    LET g1 == GCD(Abs(a[1]), b[2])
        g2 == GCD(Abs(b[1]), a[2])
    IN  IF a[1] = 0 \/ b[1] = 0 THEN <<0, 1>>
        ELSE <<(a[1] \div g1) * (b[1] \div g2), (a[2] \div g2) * (b[2] \div g1)>>
RInv(a) == IF a[1] < 0 THEN <<-a[2], -a[1]>> ELSE <<a[2], a[1]>>
RDiv(a, b) == RMul(a, RInv(b))
RLe(a, b) == a[1] * b[2] <= b[1] * a[2]
RLt(a, b) == a[1] * b[2] < b[1] * a[2]
RAbs(a) == <<Abs(a[1]), a[2]>>
RSgn(a) == IF a[1] > 0 THEN 1 ELSE IF a[1] < 0 THEN -1 ELSE 0

RECURSIVE SumSeq(_)
SumSeq(v) == IF v = <<>> THEN 0 ELSE Head(v) + SumSeq(Tail(v))

\* elementwise v + d of two coefficient arrays of the same length
VecAdd(v, d) == [k \in 1..Len(v) |-> v[k] + d[k]]
\* np.all(d == 0)
AllZero(d) == \A k \in 1..Len(d) : d[k] = 0
Zeros(n) == [k \in 1..n |-> 0]


Range(f) == {f[k] : k \in DOMAIN f}

(***************************************************************************)
(* The state.                                                              *)
(***************************************************************************)
VARIABLES
    eqs,          \* heap: the Equilibrium objects, eqs[id]
    objectives,   \* heap: the objective objects, objectives[id]
    childlists,   \* heap: the list objects held in Configuration._children
    eqs0,         \* the equilibria as they were when perturb() was entered
    objectives0,  \* the objectives as they were when perturb() was entered
    pc,           \* the statement of perturb() that runs next
    inp,          \* the arguments of the call
    deltas,       \* local dict deltas, in insertion order: <<key, value>> pairs
    y,            \* local y
    dx1,          \* local dx1
    dx2,          \* local dx2
    tr,           \* locals tr_ratio1, tr_ratio2
    Jx,           \* local Jx
    usv,          \* locals u, s, vt, m, n
    Jxi,          \* locals cutoff, large, s_inv, Jxi
    RHS,          \* local RHS
    args,         \* local args
    sol,          \* locals hit, alpha: what the last trust-region solve returned
    eq_new,       \* local eq_new
    calls,        \* every call perturb() has made to a collaborator, in order
    outcome,      \* what the call ended with: a returned object or an error
    first         \* what an earlier call with the same arguments but order=1 gave

vars == <<eqs, objectives, childlists, eqs0, objectives0, pc, inp, deltas, y,
          dx1, dx2, tr, Jx, usv, Jxi, RHS, args, sol, eq_new, calls, outcome, first>>

(***************************************************************************)
(* The parameter blocks.  arg_idx is the dict of perturb(); the order of   *)
(* BlockKeys is the order of the six if-statements that fill deltas.       *)
(***************************************************************************)
BlockKeys == <<"Rb_mn", "Zb_mn", "p_l", "i_l", "Psi", "zeta_ratio">>

arg_idx(key) ==
    CASE key = "Rb_mn" -> 1
      [] key = "Zb_mn" -> 2
      [] key = "p_l" -> 3
      [] key = "i_l" -> 4
      [] key = "Psi" -> 5
      [] key = "zeta_ratio" -> 6

\* getattr(eq, key) for a parameter block
GetBlock(e, key) ==
    CASE key = "Rb_mn" -> e.Rb_mn
      [] key = "Zb_mn" -> e.Zb_mn
      [] key = "p_l" -> e.p_l
      [] key = "i_l" -> e.i_l
      [] key = "Psi" -> e.Psi
      [] key = "zeta_ratio" -> e.zeta_ratio

\* setattr(eq, key, val): the setters of the parameter blocks store the value
SetBlock(e, key, val) ==
    CASE key = "Rb_mn" -> [e EXCEPT !.Rb_mn = val]
      [] key = "Zb_mn" -> [e EXCEPT !.Zb_mn = val]
      [] key = "p_l" -> [e EXCEPT !.p_l = val]
      [] key = "i_l" -> [e EXCEPT !.i_l = val]
      [] key = "Psi" -> [e EXCEPT !.Psi = val]
      [] key = "zeta_ratio" -> [e EXCEPT !.zeta_ratio = val]

\* unpack_state(x, nR, nZ): the first nR entries, the next nZ, and the rest
unpack_state(x, nR, nZ) ==
    <<SubSeq(x, 1, nR), SubSeq(x, nR + 1, nR + nZ), SubSeq(x, nR + nZ + 1, Len(x))>>

\* the x setter: stores x and unpacks it into R_lmn, Z_lmn, L_lmn
SetX(e, val) ==
    [e EXCEPT !.x = val,
              !.R_lmn = unpack_state(val, e.num_modes, e.num_modes)[1],
              !.Z_lmn = unpack_state(val, e.num_modes, e.num_modes)[2],
              !.L_lmn = unpack_state(val, e.num_modes, e.num_modes)[3]]

\* copy_coeffs(c_old, modes_old, modes_new), the modes of a basis being
\* numbered 1..num_modes at every resolution: the coefficient of a mode the
\* old basis had is kept, that of a new mode is zero
copy_coeffs(c_old, n_old, n_new) ==
    [k \in 1..n_new |-> IF k <= n_old THEN c_old[k] ELSE RZero]

\* change_resolution written without its line 306: x is left as it was
ChangeResolutionStaleX(e, n) ==
    IF n = e.num_modes THEN e
    ELSE [e EXCEPT !.num_modes = n,
                   !.R_lmn = copy_coeffs(e.R_lmn, e.num_modes, n),
                   !.Z_lmn = copy_coeffs(e.Z_lmn, e.num_modes, n),
                   !.L_lmn = copy_coeffs(e.L_lmn, e.num_modes, n)]

\* configuration.py lines 253-307, change_resolution, with the resolution
\* (L, M, N) given as the number n of modes it gives each of the three bases
change_resolution(e, n) ==
    IF n = e.num_modes THEN e
    ELSE LET R == copy_coeffs(e.R_lmn, e.num_modes, n)
             Z == copy_coeffs(e.Z_lmn, e.num_modes, n)
             L == copy_coeffs(e.L_lmn, e.num_modes, n)
         IN  [e EXCEPT !.num_modes = n, !.R_lmn = R, !.Z_lmn = Z, !.L_lmn = L,
                       !.x = R \o Z \o L]

(***************************************************************************)
(* Configuration.copy.  copy.deepcopy duplicates every object reachable    *)
(* from self: the equilibria of its lineage (through _parent and           *)
(* _children), their children lists and their objectives, with the         *)
(* references among the duplicates redirected to the duplicates.           *)
(* copy.copy duplicates self alone: the new object shares self's children  *)
(* list and self's objective.                                              *)
(***************************************************************************)
Heap(es, os, ls) == [eqs |-> es, objectives |-> os, childlists |-> ls]

RECURSIVE Reach(_, _)
Reach(h, R) ==
    LET up == {h.eqs[e].parent : e \in R} \ {0}
        down == UNION {Range(h.childlists[h.eqs[e].children]) : e \in R}
        R2 == R \cup up \cup down
    IN  IF R2 = R THEN R ELSE Reach(h, R2)

\* the position of e among the members of S, in increasing order
Rank(S, e) == Cardinality({r \in S : r <= e})
Pick(S, k) == CHOOSE e \in S : Rank(S, e) = k

\* new = copy.deepcopy(self): the heap with the duplicates, and new
DeepCopy(h, self) ==
    LET R == Reach(h, {self})
        O == {h.eqs[e].objective : e \in R} \ {0}
        L == {h.eqs[e].children : e \in R}
        neweq(e) == IF e = 0 THEN 0 ELSE Len(h.eqs) + Rank(R, e)
        newobj(o) == IF o = 0 THEN 0 ELSE Len(h.objectives) + Rank(O, o)
        newlist(l) == Len(h.childlists) + Rank(L, l)
        dupeq(e) == [h.eqs[e] EXCEPT !.parent = neweq(@),
                                     !.children = newlist(@),
                                     !.objective = newobj(@)]
        duplist(l) == [k \in 1..Len(h.childlists[l]) |-> neweq(h.childlists[l][k])]
    IN  [heap |-> Heap(h.eqs \o [k \in 1..Cardinality(R) |-> dupeq(Pick(R, k))],
                       h.objectives \o [k \in 1..Cardinality(O) |-> h.objectives[Pick(O, k)]],
                       h.childlists \o [k \in 1..Cardinality(L) |-> duplist(Pick(L, k))]),
         new |-> neweq(self)]

\* new = copy.copy(self)
ShallowCopy(h, self) ==
    [heap |-> Heap(Append(h.eqs, h.eqs[self]), h.objectives, h.childlists),
     new |-> Len(h.eqs) + 1]

\* copy() written "new = self": no duplicate is made
ConfigurationCopyAlias(h, self, deepcopy) ==
    [heap |-> Heap([h.eqs EXCEPT ![self].parent = self],
                   h.objectives,
                   [h.childlists EXCEPT ![h.eqs[self].children] = Append(@, self)]),
     new |-> self]

\* Configuration.copy(self, deepcopy): the heap afterwards, and the new object
ConfigurationCopy(h, self, deepcopy) ==
    LET c == IF deepcopy THEN DeepCopy(h, self) ELSE ShallowCopy(h, self)
        g == c.heap
    IN  [heap |-> Heap([g.eqs EXCEPT ![c.new].parent = self],
                       g.objectives,
                       [g.childlists EXCEPT ![g.eqs[self].children] = Append(@, c.new)]),
         new |-> c.new]

\* eq.copy(deepcopy=False)
EqCopyShallow(h, self) == ConfigurationCopy(h, self, FALSE)

\* eq.copy() as perturb() calls it: deepcopy keeps its default, True
EqCopy(h, self) == ConfigurationCopy(h, self, TRUE)

(***************************************************************************)
(* The boundary constraint (desc.boundary_conditions.BoundaryConstraint).  *)
(* The operator is built from the boundary coefficients; with one mode per *)
(* basis the constraint fixes R_lmn and Z_lmn to the sums of Rb_mn and     *)
(* Zb_mn, and the reduced coordinate is the remaining entry of x.          *)
(***************************************************************************)
BoundaryConstraint(Rb_mn, Zb_mn) == [Rb_mn |-> Rb_mn, Zb_mn |-> Zb_mn]

project(bc, x) == x[3]

recover(bc, yy) == <<Q(SumSeq(bc.Rb_mn)), Q(SumSeq(bc.Zb_mn)), yy>>

(***************************************************************************)
(* The objective.  args is the tuple (y, Rb_mn, Zb_mn, p_l, i_l, Psi,      *)
(* zeta_ratio) of perturb(); block k of the parameters is args[k + 1], the *)
(* state is argument 0.  The residual is the quadratic                     *)
(*     f(y, c) = y^2 + g y + g^2 - F0,  g = sum_k BlockWeight[k] sum(c_k)  *)
(* so that every first and second derivative is exact.                     *)
(***************************************************************************)
BlockWeight == <<1, -1, 1, -1, 1, -1>>
F0 == 7

GOf(ar) ==
    LET RECURSIVE acc(_)
        acc(k) == IF k = 0 THEN 0
                  ELSE BlockWeight[k] * SumSeq(ar[k + 1]) + acc(k - 1)
    IN  Q(acc(6))

\* the change of g along the directions dc of the blocks inds
DG(inds, dc) ==
    LET RECURSIVE acc(_)
        acc(k) == IF k = 0 THEN 0
                  ELSE BlockWeight[inds[k]] * SumSeq(dc[k]) + acc(k - 1)
    IN  Q(acc(Len(inds)))

compute(ar) ==
    LET g == GOf(ar)
    IN  RSub(RAdd(RAdd(RMul(ar[1], ar[1]), RMul(g, ar[1])), RMul(g, g)), Q(F0))

jac_x(ar) == RAdd(RMul(Q(2), ar[1]), GOf(ar))

jvp(inds, dc, ar) ==
    RMul(RAdd(ar[1], RMul(Q(2), GOf(ar))), DG(inds, dc))

\* the index of the state among the arguments, written as a tuple like the
\* tuples of block indices so that the two can be told apart
StateArg == <<0>>

\* a direction of the state (index 0) or of parameter blocks (a tuple of indices)
DirY(ia, da) == IF ia = StateArg THEN da ELSE RZero
DirG(ia, da) == IF ia = StateArg THEN RZero ELSE DG(ia, da)

jvp2(ia, ib, da, db, ar) ==
    LET ya == DirY(ia, da)
        ga == DirG(ia, da)
        yb == DirY(ib, db)
        gb == DirG(ib, db)
    IN  RAdd(RAdd(RMul(Q(2), RMul(ya, yb)), RMul(Q(2), RMul(ga, gb))),
             RAdd(RMul(ya, gb), RMul(ga, yb)))

(***************************************************************************)
(* trust_region_step_exact(n, m, f, u, s, v, Delta, initial_alpha, rtol,   *)
(* max_iter, threshold): minimise ||J dx + f|| subject to ||dx|| <= Delta, *)
(* J = u diag(s) v^T.  A radius is [kind |-> "scalar", v |-> <<r>>] or,    *)
(* when the caller multiplied a pair by a norm, the array of two products.  *)
(* The result is [raised, dx, hit, alpha, iters, warned].                  *)
(***************************************************************************)
Scalar(r) == [kind |-> "scalar", v |-> <<r>>]
Array(a) == [kind |-> "array", v |-> a]

TrFail(err) ==
    [raised |-> err, dx |-> None, hit |-> FALSE, alpha |-> RZero, iters |-> 0,
     warned |-> FALSE]
TrDone(dx, hit, alpha, iters, warned) ==
    [raised |-> "", dx |-> dx, hit |-> hit, alpha |-> alpha, iters |-> iters,
     warned |-> warned]

\* dx(alpha) = -v diag(s / (s^2 + alpha)) u^T f
StepAt(alpha, f, u, s, v) ==
    RNeg(RMul(Q(u * v), RDiv(RMul(s, f), RAdd(RMul(s, s), alpha))))

\* np.linalg.norm of a one-component vector
norm(v) == RAbs(v)

\* the damping iteration on phi(alpha) = ||dx(alpha)|| - Delta: stop when
\* |phi| <= rtol Delta or after max_iter updates (then with a warning); the
\* update is the Newton step on phi in its safeguarded form
\*   alpha <- max(0, alpha - ((phi + Delta) / Delta) (phi / phi'))
\* with phi'(alpha) = -||s u^T f|| / (s^2 + alpha)^2
RECURSIVE Damp(_, _, _, _, _, _, _, _, _)
Damp(alpha, it, f, u, s, v, Delta, rtol, max_iter) ==
    LET dx == StepAt(alpha, f, u, s, v)
        phi == RSub(norm(dx), Delta)
        t == RAdd(RMul(s, s), alpha)
        dphi == RNeg(RDiv(norm(RMul(s, f)), RMul(t, t)))
        nxt == RSub(alpha, RMul(RDiv(RAdd(phi, Delta), Delta), RDiv(phi, dphi)))
    IN  IF RLe(RAbs(phi), RMul(rtol, Delta))
        THEN TrDone(dx, TRUE, alpha, it, FALSE)
        ELSE IF it >= max_iter
        THEN TrDone(dx, TRUE, alpha, it, TRUE)
        ELSE Damp(IF RLt(nxt, RZero) THEN RZero ELSE nxt, it + 1,
                  f, u, s, v, Delta, rtol, max_iter)

\* the solver without the test of the unconstrained solution against Delta
TrustRegionAlwaysDamped(n, m, f, u, s, v, Delta, initial_alpha, rtol, max_iter, threshold) ==
    IF Delta.kind # "scalar" THEN TrFail("ValueError")
    ELSE IF RLe(Delta.v[1], RZero) THEN TrFail("InvalidArgumentError")
    ELSE IF ~RLt(RMul(threshold, s), s) THEN TrDone(RZero, FALSE, RZero, 0, FALSE)
    ELSE Damp(IF initial_alpha = None THEN RZero ELSE initial_alpha, 0,
              f, u, s, v, Delta.v[1], rtol, max_iter)

trust_region_step_exact(n, m, f, u, s, v, Delta, initial_alpha, rtol, max_iter, threshold) ==
    IF Delta.kind # "scalar" THEN TrFail("ValueError")
    ELSE IF RLe(Delta.v[1], RZero) THEN TrFail("InvalidArgumentError")
    ELSE IF ~RLt(RMul(threshold, s), s) THEN TrDone(RZero, FALSE, RZero, 0, FALSE)
    ELSE LET dx0 == StepAt(RZero, f, u, s, v)
         IN  IF RLe(norm(dx0), Delta.v[1])
             THEN TrDone(dx0, FALSE, RZero, 0, FALSE)
             ELSE Damp(IF initial_alpha = None THEN RZero ELSE initial_alpha, 0,
                       f, u, s, v, Delta.v[1], rtol, max_iter)

(***************************************************************************)
(* numpy: the SVD of a 1 x 1 matrix, and a float or a pair times a norm.   *)
(***************************************************************************)
\* u, s, vt = np.linalg.svd(Jx, full_matrices=False); m, n = Jx.shape
svd(J) == [u |-> IF RSgn(J) < 0 THEN -1 ELSE 1, s |-> RAbs(J), vt |-> 1,
           m |-> 1, n |-> 1]

\* tr_ratio * np.linalg.norm(v): a float gives a float, a pair an array
TimesNorm(tr_ratio, nrm) ==
    IF tr_ratio.kind = "scalar" THEN Scalar(RMul(tr_ratio.v[1], nrm))
    ELSE Array(<<RMul(tr_ratio.v[1], nrm), RMul(tr_ratio.v[2], nrm)>>)

(***************************************************************************)
(* The inputs the model draws from.                                        *)
(***************************************************************************)
\* the equilibrium perturb() is called on: its boundary and profile blocks
Rb0 == <<2, 0>>
Zb0 == <<0, 1>>
InitBlocks == <<Rb0, Zb0, <<1>>, <<0>>, <<1>>, <<1>>>>
\* its reduced coordinate: 0 (norm zero), 1 (a root of the residual), 2
InitY == {Q(0), Q(1), Q(2)}

\* what a dXX argument can be: None, all zeros, or an array with a nonzero entry
NonZeroDelta == <<<<1, 0>>, <<0, -1>>, <<2>>, <<1>>, <<1>>, <<-1>>>>
DeltaChoices(k) == {None, Zeros(Len(InitBlocks[k])), NonZeroDelta[k]}
DeltaArgs ==
    {d \in DeltaChoices(1) \X DeltaChoices(2) \X DeltaChoices(3) \X
           DeltaChoices(4) \X DeltaChoices(5) \X DeltaChoices(6) :
        Cardinality({k \in 1..6 : d[k] # None}) <= MaxDeltaArgs}

Orders == {0, 1, 2}
Pair(r1, r2) == [kind |-> "pair", v |-> <<r1, r2>>]
TrRatios == {Scalar(<<1, 10>>), Scalar(<<4, 1>>), Scalar(<<0, 1>>),
             Scalar(<<-1, 10>>), Pair(<<1, 10>>, <<1, 2>>)}
\* Jx: not passed, a Jacobian of the caller's, or a singular one
JxArgs == {None, <<13, 21>>, <<0, 1>>}
DefaultCutoff == <<1, 1000000>>
\* cutoff: the default 1e-6, or a cutoff above every singular value ratio
Cutoffs == {DefaultCutoff, <<2, 1>>}

(***************************************************************************)
(* Init: one equilibrium, without a parent or children; its objective is   *)
(* missing, scalar or vector-valued; it is built or not.                   *)
(***************************************************************************)
NewEq(y0, obj, built) ==
    LET bc == BoundaryConstraint(Rb0, Zb0)
        x0 == recover(bc, y0)
    IN  [x |-> x0,
         num_modes |-> 1,
         R_lmn |-> unpack_state(x0, 1, 1)[1],
         Z_lmn |-> unpack_state(x0, 1, 1)[2],
         L_lmn |-> unpack_state(x0, 1, 1)[3],
         Rb_mn |-> InitBlocks[1], Zb_mn |-> InitBlocks[2],
         p_l |-> InitBlocks[3], i_l |-> InitBlocks[4],
         Psi |-> InitBlocks[5], zeta_ratio |-> InitBlocks[6],
         parent |-> 0, children |-> 1, objective |-> obj, built |-> built]

NewObjective(scalar) ==
    [scalar |-> scalar, BC_constraint |-> BoundaryConstraint(Rb0, Zb0)]

NoOutcome == [kind |-> "none", value |-> 0, error |-> ""]
Raised(err) == [kind |-> "raise", value |-> 0, error |-> err]
Returned(e) == [kind |-> "return", value |-> e, error |-> ""]

NoFirst == [set |-> FALSE, dx1 |-> None, eq |-> None]

Init ==
    /\ \E y0 \in InitY, built \in BOOLEAN, kind \in {"missing", "scalar", "vector"} :
          /\ eqs = <<NewEq(y0, IF kind = "missing" THEN 0 ELSE 1, built)>>
          /\ objectives = IF kind = "missing" THEN <<>>
                          ELSE <<NewObjective(kind = "scalar")>>
    /\ childlists = <<<<>>>>
    /\ eqs0 = eqs
    /\ objectives0 = objectives
    /\ pc = "idle"
    /\ inp = None
    /\ deltas = <<>>
    /\ y = None
    /\ dx1 = None
    /\ dx2 = None
    /\ tr = None
    /\ Jx = None
    /\ usv = None
    /\ Jxi = None
    /\ RHS = None
    /\ args = None
    /\ sol = None
    /\ eq_new = 0
    /\ calls = <<>>
    /\ outcome = NoOutcome
    /\ first = NoFirst

Log(op, arg) == calls' = Append(calls, [op |-> op, arg |-> arg])

(***************************************************************************)
(* perturb(eq, dRb, dZb, dp, di, dPsi, dzeta_ratio, order, tr_ratio,       *)
(* cutoff, Jx, verbose, copy)                                              *)
(***************************************************************************)
\* the call: the arguments are bound
Call ==
    /\ pc = "idle"
    /\ \E d \in DeltaArgs, order \in Orders, tr_ratio \in TrRatios,
          cutoff \in Cutoffs, J \in JxArgs, copy \in BOOLEAN :
          /\ inp' = [eq |-> 1, d |-> d, order |-> order, tr_ratio |-> tr_ratio,
                     cutoff |-> cutoff, Jx |-> J, copy |-> copy]
          /\ Jx' = J
    /\ eqs0' = eqs
    /\ objectives0' = objectives
    /\ pc' = "validate"
    /\ UNCHANGED <<first, eqs, objectives, childlists, deltas, y, dx1, dx2, tr, usv,
                   Jxi, RHS, args, sol, eq_new, calls, outcome>>

\* lines 68-71 alone: the test "if eq.objective.scalar" is left out
ObjectiveErrorMissingOnly(e, os) ==
    IF e.objective = 0 THEN "AttributeError" ELSE ""

\* lines 68-75: the objective must be there and must not be scalar
ObjectiveError(e, os) ==
    IF e.objective = 0 THEN "AttributeError"
    ELSE IF os[e.objective].scalar THEN "AttributeError"
    ELSE ""

Validate ==
    /\ pc = "validate"
    /\ LET err == ObjectiveError(eqs[inp.eq], objectives)
       IN  IF err # ""
           THEN pc' = "raised" /\ outcome' = Raised(err)
           ELSE pc' = "collect" /\ UNCHANGED outcome
    /\ UNCHANGED <<first, eqs, objectives, childlists, eqs0, objectives0, inp, deltas,
                   y, dx1, dx2, tr, Jx, usv, Jxi, RHS, args, sol, eq_new, calls>>

\* lines 77-89 with the test "d is not None" alone: a delta that is all zero
\* is collected too
RECURSIVE CollectFromNotNone(_, _)
CollectFromNotNone(d, k) ==
    IF k > 6 THEN <<>>
    ELSE IF d[k] # None
         THEN <<<<BlockKeys[k], d[k]>>>> \o CollectFromNotNone(d, k + 1)
         ELSE CollectFromNotNone(d, k + 1)

\* lines 77-89: the deltas that are neither None nor all zero, in the order
\* of the six if-statements
RECURSIVE CollectFrom(_, _)
CollectFrom(d, k) ==
    IF k > 6 THEN <<>>
    ELSE IF d[k] # None /\ ~AllZero(d[k])
         THEN <<<<BlockKeys[k], d[k]>>>> \o CollectFrom(d, k + 1)
         ELSE CollectFrom(d, k + 1)

CollectDeltas ==
    /\ pc = "collect"
    /\ deltas' = CollectFrom(inp.d, 1)
    /\ pc' = "build"
    /\ UNCHANGED <<first, eqs, objectives, childlists, eqs0, objectives0, inp, y, dx1,
                   dx2, tr, Jx, usv, Jxi, RHS, args, sol, eq_new, calls, outcome>>

\* lines 95-96 without the test "if not eq.built": build is called every time
BuildAlways ==
    /\ pc = "build"
    /\ eqs' = [eqs EXCEPT ![inp.eq].built = TRUE]
    /\ Log("build", None)
    /\ pc' = "project"
    /\ UNCHANGED <<first, objectives, childlists, eqs0, objectives0, inp, deltas, y,
                   dx1, dx2, tr, Jx, usv, Jxi, RHS, args, sol, eq_new, outcome>>

\* lines 95-96: build the equilibrium unless it is built
Build ==
    /\ pc = "build"
    /\ IF ~eqs[inp.eq].built
       THEN /\ eqs' = [eqs EXCEPT ![inp.eq].built = TRUE]
            /\ Log("build", None)
       ELSE UNCHANGED <<eqs, calls>>
    /\ pc' = "project"
    /\ UNCHANGED <<first, objectives, childlists, eqs0, objectives0, inp, deltas, y,
                   dx1, dx2, tr, Jx, usv, Jxi, RHS, args, sol, eq_new, outcome>>

\* lines 102-106: tr_ratio1, tr_ratio2 = tr_ratio, or both tr_ratio
UnpackTrRatio(tr_ratio) ==
    IF tr_ratio.kind = "pair" THEN <<Scalar(tr_ratio.v[1]), Scalar(tr_ratio.v[2])>>
    ELSE <<tr_ratio, tr_ratio>>

\* lines 97-106
Project ==
    /\ pc = "project"
    /\ LET e == eqs[inp.eq]
           yy == project(objectives[e.objective].BC_constraint, e.x)
       IN  /\ y' = yy
           /\ args' = <<yy, e.Rb_mn, e.Zb_mn, e.p_l, e.i_l, e.Psi, e.zeta_ratio>>
           /\ Log("project", e.x)
    /\ dx1' = RZero
    /\ dx2' = RZero
    /\ tr' = UnpackTrRatio(inp.tr_ratio)
    /\ pc' = "order1"
    /\ UNCHANGED <<first, eqs, objectives, childlists, eqs0, objectives0, inp, deltas,
                   Jx, usv, Jxi, RHS, sol, eq_new, outcome>>

\* the keyword arguments of both trust_region_step_exact calls
TrRtol == <<1, 100>>
TrMaxIter == 10
TrThreshold == <<1, 1000000>>

\* lines 132-133: inds and dc, in the order of the dict deltas
IndsOf(ds) == [k \in 1..Len(ds) |-> arg_idx(ds[k][1])]
DcOf(ds) == [k \in 1..Len(ds) |-> ds[k][2]]

\* the test written "order >= 0"
FirstOrderFromZero(order) == order >= 0

\* lines 109 and 229: "if order > 0"
FirstOrder(order) == order > 0

\* the test written "order >= 0"
SecondOrderFromZero(order) == order >= 0

\* line 157: "if order > 1"
SecondOrder(order) == order > 1

\* lines 109-119 without the test "if Jx is None": jac_x is called whether or
\* not the caller passed a Jacobian, and its result replaces the one passed
Order1JacRecomputed ==
    /\ pc = "order1"
    /\ IF FirstOrder(inp.order)
       THEN /\ Jx' = jac_x(args)
            /\ Log("jac_x", args)
            /\ pc' = "svd"
       ELSE /\ UNCHANGED <<Jx, calls>>
            /\ pc' = "order2"
    /\ UNCHANGED <<first, eqs, objectives, childlists, eqs0, objectives0, inp, deltas,
                   y, dx1, dx2, tr, usv, Jxi, RHS, args, sol, eq_new, outcome>>

\* lines 109-119: the state Jacobian, unless the caller passed one
Order1Jac ==
    /\ pc = "order1"
    /\ IF FirstOrder(inp.order)
       THEN /\ IF Jx = None
               THEN Jx' = jac_x(args) /\ Log("jac_x", args)
               ELSE UNCHANGED <<Jx, calls>>
            /\ pc' = "svd"
       ELSE /\ UNCHANGED <<Jx, calls>>
            /\ pc' = "order2"
    /\ UNCHANGED <<first, eqs, objectives, childlists, eqs0, objectives0, inp, deltas,
                   y, dx1, dx2, tr, usv, Jxi, RHS, args, sol, eq_new, outcome>>

\* lines 123-127: the pseudo-inverse of Jx with the relative cutoff
PseudoInverse(f, cutoff) ==
    LET cut == RMul(cutoff, f.s)
        large == RLt(cut, f.s)
        s_inv == IF large THEN RDiv(Q(1), f.s) ELSE RZero
    IN  RMul(Q(f.vt * f.u), s_inv)

\* lines 120-127
Svd ==
    /\ pc = "svd"
    /\ usv' = svd(Jx)
    /\ Jxi' = PseudoInverse(svd(Jx), inp.cutoff)
    /\ Log("svd", Jx)
    /\ pc' = "rhs1"
    /\ UNCHANGED <<first, eqs, objectives, childlists, eqs0, objectives0, inp, deltas,
                   y, dx1, dx2, tr, Jx, RHS, args, sol, eq_new, outcome>>

\* line 138 written "RHS = temp": the product replaces the residual
Order1RHSOverwritten(ds, ar) == jvp(IndsOf(ds), DcOf(ds), ar)

\* lines 129-138 placed under "if order > 1": a first-order call gets the
\* residual alone
Order1RHSByOrder(ds, ar) ==
    IF inp.order > 1 THEN RAdd(compute(ar), jvp(IndsOf(ds), DcOf(ds), ar))
    ELSE compute(ar)

\* lines 128-138: RHS = compute(*args); RHS += jvp(inds, dc, *args)
Order1RHS(ds, ar) == RAdd(compute(ar), jvp(IndsOf(ds), DcOf(ds), ar))

\* lines 128-138 preceded by the loop of lines 213-214 run on eq itself: the
\* deltas are added to the input before the solves
Rhs1AfterUpdate ==
    /\ pc = "rhs1"
    /\ LET RECURSIVE AddTo(_, _)
           AddTo(e, ds) ==
               IF ds = <<>> THEN e
               ELSE AddTo(SetBlock(e, Head(ds)[1],
                                   VecAdd(GetBlock(e, Head(ds)[1]), Head(ds)[2])),
                          Tail(ds))
       IN  eqs' = [eqs EXCEPT ![inp.eq] = AddTo(@, deltas)]
    /\ RHS' = Order1RHS(deltas, args)
    /\ calls' = calls \o <<[op |-> "compute", arg |-> args],
                           [op |-> "jvp", arg |-> <<IndsOf(deltas), DcOf(deltas), args>>]>>
    /\ pc' = "solve1"
    /\ UNCHANGED <<first, objectives, childlists, eqs0, objectives0, inp, deltas,
                   y, dx1, dx2, tr, Jx, usv, Jxi, args, sol, eq_new, outcome>>

Rhs1 ==
    /\ pc = "rhs1"
    /\ RHS' = Order1RHS(deltas, args)
    /\ calls' = calls \o <<[op |-> "compute", arg |-> args],
                           [op |-> "jvp", arg |-> <<IndsOf(deltas), DcOf(deltas), args>>]>>
    /\ pc' = "solve1"
    /\ UNCHANGED <<first, eqs, objectives, childlists, eqs0, objectives0, inp, deltas,
                   y, dx1, dx2, tr, Jx, usv, Jxi, args, sol, eq_new, outcome>>

\* line 149: tr_ratio * np.linalg.norm(y)
Order1Radius(tr_ratio, tr_ratio1, yy) == TimesNorm(tr_ratio, norm(yy))

\* line 200 written like line 149, with the norm of y
Order2RadiusOfY(tr_ratio, tr_ratio2, d1) == TimesNorm(tr_ratio, norm(y))

\* line 200: tr_ratio * np.linalg.norm(dx1)
Order2Radius(tr_ratio, tr_ratio2, d1) == TimesNorm(tr_ratio, norm(d1))

\* the call with max_iter=0: the damping iteration makes no update
TrSolveNoIteration(rhs, f, Delta) ==
    trust_region_step_exact(f.n, f.m, rhs, f.u, f.s, f.vt, Delta, None,
                            TrRtol, 0, TrThreshold)

\* lines 142-154 and 193-205: the call, with perturb()'s keyword arguments
TrSolve(rhs, f, Delta) ==
    trust_region_step_exact(f.n, f.m, rhs, f.u, f.s, f.vt, Delta, None,
                            TrRtol, TrMaxIter, TrThreshold)

\* lines 142-154 inside a retry loop: a solve that raises is made again
Solve1Retried ==
    /\ pc = "solve1"
    /\ LET Delta == Order1Radius(inp.tr_ratio, tr[1], y)
           r == TrSolve(RHS, usv, Delta)
       IN  /\ Log("trust_region_step_exact",
                  [Delta |-> Delta, f |-> RHS, usv |-> usv, step |-> 1])
           /\ sol' = r
           /\ IF r.raised # ""
              THEN pc' = "solve1" /\ UNCHANGED <<dx1, outcome>>
              ELSE pc' = "order2" /\ dx1' = r.dx /\ UNCHANGED outcome
    /\ UNCHANGED <<first, eqs, objectives, childlists, eqs0, objectives0, inp, deltas,
                   y, dx2, tr, Jx, usv, Jxi, RHS, args, eq_new>>

\* lines 142-154
Solve1 ==
    /\ pc = "solve1"
    /\ LET Delta == Order1Radius(inp.tr_ratio, tr[1], y)
           r == TrSolve(RHS, usv, Delta)
       IN  /\ Log("trust_region_step_exact",
                  [Delta |-> Delta, f |-> RHS, usv |-> usv, step |-> 1])
           /\ sol' = r
           /\ IF r.raised # ""
              THEN pc' = "raised" /\ outcome' = Raised(r.raised) /\ UNCHANGED dx1
              ELSE pc' = "order2" /\ dx1' = r.dx /\ UNCHANGED outcome
    /\ UNCHANGED <<first, eqs, objectives, childlists, eqs0, objectives0, inp, deltas,
                   y, dx2, tr, Jx, usv, Jxi, RHS, args, eq_new>>

\* line 164 written "RHS += temp": the first-order right-hand side stays in
Order2RHSAccumulated(ds, d1, ar) ==
    RAdd(Order1RHS(ds, ar),
         RAdd(RAdd(RMul(<<1, 2>>, jvp2(StateArg, StateArg, d1, d1, ar)),
                   RMul(<<1, 2>>, jvp2(IndsOf(ds), IndsOf(ds), DcOf(ds), DcOf(ds), ar))),
              jvp2(StateArg, IndsOf(ds), d1, DcOf(ds), ar)))

\* lines 163-187: the three second-order products
Order2RHS(ds, d1, ar) ==
    RAdd(RAdd(RMul(<<1, 2>>, jvp2(StateArg, StateArg, d1, d1, ar)),
              RMul(<<1, 2>>, jvp2(IndsOf(ds), IndsOf(ds), DcOf(ds), DcOf(ds), ar))),
         jvp2(StateArg, IndsOf(ds), d1, DcOf(ds), ar))

\* lines 157-191 with the products taken at the state after the first step,
\* y + dx1, instead of y
Rhs2AtSteppedState ==
    /\ pc = "order2"
    /\ IF SecondOrder(inp.order)
       THEN LET stepped == [args EXCEPT ![1] = RAdd(y, dx1)]
            IN  /\ RHS' = Order2RHS(deltas, dx1, stepped)
                /\ calls' = calls \o
                     <<[op |-> "jvp2", arg |-> <<StateArg, StateArg, dx1, dx1, stepped>>],
                       [op |-> "jvp2", arg |-> <<IndsOf(deltas), IndsOf(deltas),
                                                 DcOf(deltas), DcOf(deltas), stepped>>],
                       [op |-> "jvp2", arg |-> <<StateArg, IndsOf(deltas), dx1,
                                                 DcOf(deltas), stepped>>]>>
                /\ pc' = "solve2"
       ELSE /\ UNCHANGED <<RHS, calls>>
            /\ pc' = "copy"
    /\ UNCHANGED <<first, eqs, objectives, childlists, eqs0, objectives0, inp, deltas,
                   y, dx1, dx2, tr, Jx, usv, Jxi, args, sol, eq_new, outcome>>

\* lines 157-191
Rhs2 ==
    /\ pc = "order2"
    /\ IF SecondOrder(inp.order)
       THEN /\ RHS' = Order2RHS(deltas, dx1, args)
            /\ calls' = calls \o
                 <<[op |-> "jvp2", arg |-> <<StateArg, StateArg, dx1, dx1, args>>],
                   [op |-> "jvp2", arg |-> <<IndsOf(deltas), IndsOf(deltas),
                                             DcOf(deltas), DcOf(deltas), args>>],
                   [op |-> "jvp2", arg |-> <<StateArg, IndsOf(deltas), dx1,
                                             DcOf(deltas), args>>]>>
            /\ pc' = "solve2"
       ELSE /\ UNCHANGED <<RHS, calls>>
            /\ pc' = "copy"
    /\ UNCHANGED <<first, eqs, objectives, childlists, eqs0, objectives0, inp, deltas,
                   y, dx1, dx2, tr, Jx, usv, Jxi, args, sol, eq_new, outcome>>

\* lines 193-205 preceded by a second np.linalg.svd(Jx)
Solve2Refactorized ==
    /\ pc = "solve2"
    /\ LET Delta == Order2Radius(inp.tr_ratio, tr[2], dx1)
           r == TrSolve(RHS, svd(Jx), Delta)
       IN  /\ calls' = calls \o
                 <<[op |-> "svd", arg |-> Jx],
                   [op |-> "trust_region_step_exact",
                    arg |-> [Delta |-> Delta, f |-> RHS, usv |-> svd(Jx), step |-> 2]]>>
           /\ sol' = r
           /\ IF r.raised # ""
              THEN pc' = "raised" /\ outcome' = Raised(r.raised) /\ UNCHANGED dx2
              ELSE pc' = "copy" /\ dx2' = r.dx /\ UNCHANGED outcome
    /\ UNCHANGED <<first, eqs, objectives, childlists, eqs0, objectives0, inp, deltas,
                   y, dx1, tr, Jx, usv, Jxi, RHS, args, eq_new>>

\* lines 193-205
Solve2 ==
    /\ pc = "solve2"
    /\ LET Delta == Order2Radius(inp.tr_ratio, tr[2], dx1)
           r == TrSolve(RHS, usv, Delta)
       IN  /\ Log("trust_region_step_exact",
                  [Delta |-> Delta, f |-> RHS, usv |-> usv, step |-> 2])
           /\ sol' = r
           /\ IF r.raised # ""
              THEN pc' = "raised" /\ outcome' = Raised(r.raised) /\ UNCHANGED dx2
              ELSE pc' = "copy" /\ dx2' = r.dx /\ UNCHANGED outcome
    /\ UNCHANGED <<first, eqs, objectives, childlists, eqs0, objectives0, inp, deltas,
                   y, dx1, tr, Jx, usv, Jxi, RHS, args, eq_new>>

\* lines 207-210 without the test "if copy": eq.copy() is called every time
CopyAlways ==
    /\ pc = "copy"
    /\ LET c == EqCopy(Heap(eqs, objectives, childlists), inp.eq)
       IN  /\ eqs' = c.heap.eqs
           /\ objectives' = c.heap.objectives
           /\ childlists' = c.heap.childlists
           /\ eq_new' = c.new
           /\ Log("copy", inp.eq)
    /\ pc' = "update"
    /\ UNCHANGED <<first, eqs0, objectives0, inp, deltas, y, dx1, dx2, tr, Jx, usv,
                   Jxi, RHS, args, sol, outcome>>

\* lines 207-210
Copy ==
    /\ pc = "copy"
    /\ IF inp.copy
       THEN LET c == EqCopy(Heap(eqs, objectives, childlists), inp.eq)
            IN  /\ eqs' = c.heap.eqs
                /\ objectives' = c.heap.objectives
                /\ childlists' = c.heap.childlists
                /\ eq_new' = c.new
                /\ Log("copy", inp.eq)
       ELSE /\ eq_new' = inp.eq
            /\ UNCHANGED <<eqs, objectives, childlists, calls>>
    /\ pc' = "update"
    /\ UNCHANGED <<first, eqs0, objectives0, inp, deltas, y, dx1, dx2, tr, Jx, usv,
                   Jxi, RHS, args, sol, outcome>>

\* setattr(eq_new, key, dc) for each delta: the block is replaced by its delta
RECURSIVE ApplyDeltasReplacing(_, _)
ApplyDeltasReplacing(e, ds) ==
    IF ds = <<>> THEN e
    ELSE ApplyDeltasReplacing(SetBlock(e, Head(ds)[1], Head(ds)[2]), Tail(ds))

\* lines 213-214: setattr(eq_new, key, getattr(eq_new, key) + dc) for each delta
RECURSIVE ApplyDeltas(_, _)
ApplyDeltas(e, ds) ==
    IF ds = <<>> THEN e
    ELSE ApplyDeltas(SetBlock(e, Head(ds)[1], VecAdd(GetBlock(e, Head(ds)[1]), Head(ds)[2])),
                     Tail(ds))

Update ==
    /\ pc = "update"
    /\ eqs' = [eqs EXCEPT ![eq_new] = ApplyDeltas(@, deltas)]
    /\ pc' = "bc"
    /\ UNCHANGED <<first, objectives, childlists, eqs0, objectives0, inp, deltas, y,
                   dx1, dx2, tr, Jx, usv, Jxi, RHS, args, sol, eq_new, calls, outcome>>

\* line 217 without its second test: only "Rb_mn" in deltas
BoundaryChangedRbOnly(ds) == \E k \in 1..Len(ds) : ds[k][1] = "Rb_mn"

\* line 217: "Rb_mn" in deltas or "Zb_mn" in deltas
BoundaryChanged(ds) == \E k \in 1..Len(ds) : ds[k][1] \in {"Rb_mn", "Zb_mn"}

\* lines 217-226 placed before the loop of lines 213-214: the operator is
\* built from the boundary coefficients the input had
RebuildBCBeforeUpdate ==
    /\ pc = "bc"
    /\ IF BoundaryChanged(deltas)
       THEN /\ objectives' = [objectives EXCEPT ![eqs[eq_new].objective].BC_constraint =
                                 BoundaryConstraint(eqs0[inp.eq].Rb_mn, eqs0[inp.eq].Zb_mn)]
            /\ Log("BoundaryConstraint", <<eqs0[inp.eq].Rb_mn, eqs0[inp.eq].Zb_mn>>)
       ELSE UNCHANGED <<objectives, calls>>
    /\ pc' = "recover"
    /\ UNCHANGED <<first, eqs, childlists, eqs0, objectives0, inp, deltas, y, dx1, dx2,
                   tr, Jx, usv, Jxi, RHS, args, sol, eq_new, outcome>>

\* lines 217-226
RebuildBC ==
    /\ pc = "bc"
    /\ IF BoundaryChanged(deltas)
       THEN LET e == eqs[eq_new]
            IN  /\ objectives' = [objectives EXCEPT ![e.objective].BC_constraint =
                                     BoundaryConstraint(e.Rb_mn, e.Zb_mn)]
                /\ Log("BoundaryConstraint", <<e.Rb_mn, e.Zb_mn>>)
       ELSE UNCHANGED <<objectives, calls>>
    /\ pc' = "recover"
    /\ UNCHANGED <<first, eqs, childlists, eqs0, objectives0, inp, deltas, y, dx1, dx2,
                   tr, Jx, usv, Jxi, RHS, args, sol, eq_new, outcome>>

\* lines 229-231
Recover ==
    /\ pc = "recover"
    /\ IF FirstOrder(inp.order)
       THEN LET dy == RAdd(dx1, dx2)
                bc == objectives[eqs[eq_new].objective].BC_constraint
            IN  /\ eqs' = [eqs EXCEPT ![eq_new] = SetX(@, recover(bc, RAdd(y, dy)))]
                /\ Log("recover", RAdd(y, dy))
       ELSE UNCHANGED <<eqs, calls>>
    /\ pc' = "return"
    /\ UNCHANGED <<first, objectives, childlists, eqs0, objectives0, inp, deltas, y,
                   dx1, dx2, tr, Jx, usv, Jxi, RHS, args, sol, eq_new, outcome>>

\* line 237
Return ==
    /\ pc = "return"
    /\ outcome' = Returned(eq_new)
    /\ pc' = "done"
    /\ UNCHANGED <<first, eqs, objectives, childlists, eqs0, objectives0, inp, deltas,
                   y, dx1, dx2, tr, Jx, usv, Jxi, RHS, args, sol, eq_new, calls>>

\* a second call on the same equilibrium: perturb(eq, ..., order=1, copy=True)
\* has returned and perturb(eq, ..., order=2, copy=True) is called with the
\* same deltas, tr_ratio and Jx; the first call's step and state are kept
CallAgain ==
    /\ pc = "done"
    /\ ~first.set
    /\ inp.order = 1
    /\ inp.copy
    /\ first' = [set |-> TRUE, dx1 |-> dx1, eq |-> eqs[outcome.value]]
    /\ inp' = [inp EXCEPT !.order = 2]
    /\ Jx' = inp.Jx
    /\ eqs0' = eqs
    /\ objectives0' = objectives
    /\ deltas' = None
    /\ y' = None
    /\ dx1' = None
    /\ dx2' = None
    /\ tr' = None
    /\ usv' = None
    /\ Jxi' = None
    /\ RHS' = None
    /\ args' = None
    /\ sol' = None
    /\ eq_new' = 0
    /\ calls' = <<>>
    /\ outcome' = NoOutcome
    /\ pc' = "validate"
    /\ UNCHANGED <<eqs, objectives, childlists>>

Next ==
    \/ Call
    \/ Validate
    \/ CollectDeltas
    \/ Build
    \/ Project
    \/ Order1Jac
    \/ Svd
    \/ Rhs1
    \/ Solve1
    \/ Rhs2
    \/ Solve2
    \/ Copy
    \/ Update
    \/ RebuildBC
    \/ Recover
    \/ Return

Spec == Init /\ [][Next]_vars

\* the calls that perturb the boundary block Rb_mn and the profile block p_l
\* only
DeltaArgsLive == {d \in DeltaArgs : \A k \in {2, 4, 5, 6} : d[k] = None}

\* perturb(eq, dRb, None, dp, order=..., tr_ratio=..., Jx=..., copy=...): the
\* call with the default cutoff
CallLive ==
    /\ pc = "idle"
    /\ \E d \in DeltaArgsLive, order \in Orders, tr_ratio \in TrRatios,
          J \in JxArgs, copy \in BOOLEAN :
          /\ inp' = [eq |-> 1, d |-> d, order |-> order, tr_ratio |-> tr_ratio,
                     cutoff |-> DefaultCutoff, Jx |-> J, copy |-> copy]
          /\ Jx' = J
    /\ eqs0' = eqs
    /\ objectives0' = objectives
    /\ pc' = "validate"
    /\ UNCHANGED <<first, eqs, objectives, childlists, deltas, y, dx1, dx2, tr, usv,
                   Jxi, RHS, args, sol, eq_new, calls, outcome>>

\* the statements of the body of perturb()
Body ==
    \/ Validate
    \/ CollectDeltas
    \/ Build
    \/ Project
    \/ Order1Jac
    \/ Svd
    \/ Rhs1
    \/ Solve1
    \/ Rhs2
    \/ Solve2
    \/ Copy
    \/ Update
    \/ RebuildBC
    \/ Recover
    \/ Return

NextLive ==
    \/ CallLive
    \/ Body

\* a call is under way: some statement of the body is the next to run
Running == pc \notin {"idle", "done", "raised", "config"}

\* Python runs the statements of a called function one after the other: a
\* call that is under way takes its next step.  This is weak fairness of
\* Body, WF_vars(Body), written out with Running for ENABLED <<Body>>_vars
\* (the guard of each statement is its place pc and nothing else).
BodyFairness == []<>(~Running) \/ []<><<Body>>_vars

SpecLive == Init /\ [][NextLive]_vars /\ BodyFairness

\* the same program, where an order-1 call may be followed by the order-2 call
NextOrders ==
    \/ Next
    \/ CallAgain

SpecOrders == Init /\ [][NextOrders]_vars


(***************************************************************************)
(* Configuration used directly: new = c.copy(deepcopy), then setter calls  *)
(* through the references c and new.  c is the equilibrium of Init (object *)
(* 1); eq_new holds the reference new; calls logs the operations.          *)
(***************************************************************************)
SetterNames == <<"x", "R_lmn", "Z_lmn", "L_lmn", "Rb_mn", "Zb_mn", "p_l", "i_l", "Psi">>

\* configuration.py lines 318-320 and 347-420: the setters.  x unpacks into
\* R_lmn, Z_lmn, L_lmn; each of these re-concatenates x; the others store.
Setter(e, attr, val) ==
    CASE attr = "x" -> SetX(e, val)
      [] attr = "R_lmn" -> [e EXCEPT !.R_lmn = val, !.x = val \o e.Z_lmn \o e.L_lmn]
      [] attr = "Z_lmn" -> [e EXCEPT !.Z_lmn = val, !.x = e.R_lmn \o val \o e.L_lmn]
      [] attr = "L_lmn" -> [e EXCEPT !.L_lmn = val, !.x = e.R_lmn \o e.Z_lmn \o val]
      [] OTHER -> SetBlock(e, attr, val)

\* the value a test passes to a setter: one per attribute and reference
SetterValue(ref, attr) ==
    LET k == IF ref = "c" THEN 3 ELSE 5
    IN  CASE attr = "x" -> <<Q(k), Q(k + 1), Q(k + 2)>>
          [] attr \in {"R_lmn", "Z_lmn", "L_lmn"} -> <<Q(k + 3)>>
          [] attr \in {"Rb_mn", "Zb_mn"} -> <<k, k + 1>>
          [] OTHER -> <<k + 4>>

\* the value a test passes to a setter of an object whose bases have n
\* modes: x has 3n entries and R_lmn, Z_lmn, L_lmn have n
SetterValueAt(ref, attr, n) ==
    LET v == SetterValue(ref, attr)
    IN  IF attr \in {"x", "R_lmn", "Z_lmn", "L_lmn"}
        THEN [k \in 1..(n * Len(v)) |->
                 RAdd(v[((k - 1) \div n) + 1], Q(10 * ((k - 1) % n)))]
        ELSE v

\* the numbers of modes change_resolution is called for (a call that passes
\* None for L, M and N does what a call for the present resolution does)
Resolutions == {1, 2}

\* the object a reference denotes
Deref(ref) == IF ref = "c" THEN 1 ELSE eq_new

\* new = c.copy(deepcopy)
ConfigCopy ==
    /\ pc = "idle"
    /\ \E deepcopy \in BOOLEAN :
          LET r == ConfigurationCopy(Heap(eqs, objectives, childlists), 1, deepcopy)
          IN  /\ eqs' = r.heap.eqs
              /\ objectives' = r.heap.objectives
              /\ childlists' = r.heap.childlists
              /\ eq_new' = r.new
              /\ Log("copy", [deepcopy |-> deepcopy])
    /\ pc' = "config"
    /\ UNCHANGED <<first, eqs0, objectives0, inp, deltas, y, dx1, dx2, tr, Jx, usv,
                   Jxi, RHS, args, sol, outcome>>

\* c.attr = val or new.attr = val
ConfigSet ==
    /\ pc = "config"
    /\ Len(calls) <= MaxSetterCalls
    /\ \E ref \in {"c", "new"}, k \in 1..Len(SetterNames) :
          LET attr == SetterNames[k]
          IN  /\ eqs' = [eqs EXCEPT ![Deref(ref)] =
                             Setter(@, attr, SetterValueAt(ref, attr, @.num_modes))]
              /\ Log("set", [ref |-> ref, attr |-> attr])
    /\ UNCHANGED <<first, objectives, childlists, eqs0, objectives0, pc, inp, deltas,
                   y, dx1, dx2, tr, Jx, usv, Jxi, RHS, args, sol, eq_new, outcome>>

\* c.change_resolution(L, M, N) or new.change_resolution(L, M, N)
ConfigChangeResolution ==
    /\ pc = "config"
    /\ Len(calls) <= MaxSetterCalls
    /\ \E ref \in {"c", "new"}, n \in Resolutions :
          /\ eqs' = [eqs EXCEPT ![Deref(ref)] = change_resolution(@, n)]
          /\ Log("change_resolution", [ref |-> ref, n |-> n])
    /\ UNCHANGED <<first, objectives, childlists, eqs0, objectives0, pc, inp, deltas,
                   y, dx1, dx2, tr, Jx, usv, Jxi, RHS, args, sol, eq_new, outcome>>

NextConfig ==
    \/ ConfigCopy
    \/ ConfigSet
    \/ ConfigChangeResolution

SpecConfig == Init /\ [][NextConfig]_vars

(***************************************************************************)
(* get_system_derivatives(equil_obj, args, arg_dict, pert_order), called   *)
(* on the objective and the arguments (y, c) of the equilibrium of Init.   *)
(* arg_dict is the sequence of its items (i, columns).                     *)
(***************************************************************************)
\* the names bound in the module perturbations: its imports (lines 1-9) and
\* its two functions (lines 14 and 240)
ModuleGlobals ==
    {"np", "time", "warnings", "colored", "Timer", "use_jax", "BoundaryConstraint",
     "trust_region_step_exact", "perturb", "get_system_derivatives"}

\* the evaluation of a global name in a function body: a name that the
\* module does not bind (and that is no builtin) raises NameError
LookUp(name) == IF name \in ModuleGlobals THEN "" ELSE "NameError"

PertOrders == {0, 1, 2, 3}
ArgDicts ==
    {<<>>,
     <<<<3, <<1>>>>>>,
     <<<<1, <<1, 2>>>>, <<3, <<1>>>>>>,
     <<<<3, <<1>>>>, <<1, <<2>>>>>>}

\* lines 275-365.  f is computed first (line 280); with pert_order >= 1 the
\* next thing evaluated is the name Derivative at line 291, and the lines
\* after it run only if that lookup succeeds; with pert_order < 1 both
\* blocks are skipped and line 365 returns None.
get_system_derivatives(ar, arg_dict, pert_order) ==
    LET f == compute(ar)
    IN  CASE pert_order < 1 -> Returned(None)
          [] pert_order >= 1 /\ LookUp("Derivative") # "" -> Raised(LookUp("Derivative"))

\* the call: the arguments are bound
CallDerivatives ==
    /\ pc = "idle"
    /\ eqs[1].objective # 0
    /\ \E arg_dict \in ArgDicts, pert_order \in PertOrders :
          inp' = [arg_dict |-> arg_dict, pert_order |-> pert_order]
    /\ args' = <<project(BoundaryConstraint(eqs[1].Rb_mn, eqs[1].Zb_mn), eqs[1].x),
                 eqs[1].Rb_mn, eqs[1].Zb_mn, eqs[1].p_l, eqs[1].i_l, eqs[1].Psi,
                 eqs[1].zeta_ratio>>
    /\ pc' = "derivatives"
    /\ UNCHANGED <<first, eqs, objectives, childlists, eqs0, objectives0, deltas, y,
                   dx1, dx2, tr, Jx, usv, Jxi, RHS, sol, eq_new, calls, outcome>>

\* the body runs to its return or its raise
GetSystemDerivatives ==
    /\ pc = "derivatives"
    /\ outcome' = get_system_derivatives(args, inp.arg_dict, inp.pert_order)
    /\ pc' = IF outcome'.kind = "raise" THEN "raised" ELSE "done"
    /\ UNCHANGED <<first, eqs, objectives, childlists, eqs0, objectives0, inp, deltas,
                   y, dx1, dx2, tr, Jx, usv, Jxi, RHS, args, sol, eq_new, calls>>

NextDerivatives ==
    \/ CallDerivatives
    \/ GetSystemDerivatives

SpecDerivatives == Init /\ [][NextDerivatives]_vars

(***************************************************************************)
(* Properties of perturb().  eqs0 and objectives0 hold the heap as it was  *)
(* when the call was made; inp.eq is the equilibrium passed in.            *)
(***************************************************************************)
Called == pc # "idle"
Finished == pc = "done"

\* the state vector and the six parameter blocks of an equilibrium
StateOf(e) == <<e.x, e.Rb_mn, e.Zb_mn, e.p_l, e.i_l, e.Psi, e.zeta_ratio>>

\* delta k was passed and has a nonzero entry
Effective(k) == inp.d[k] # None /\ ~AllZero(inp.d[k])

\* C1: when the objective of the equilibrium passed to perturb() is missing
\* or scalar, the call ends by raising AttributeError and never returns, no
\* collaborator (build, project, compute, jvp, jac_x, the trust-region
\* solver, copy, ...) has been invoked, and the heap is as it was at the call.
C1_InvalidObjectiveRaisesFirst ==
    (Called /\ (eqs0[inp.eq].objective = 0
                \/ objectives0[eqs0[inp.eq].objective].scalar))
        => /\ pc \in {"validate", "raised"}
           /\ pc = "raised" => outcome = Raised("AttributeError")
           /\ calls = <<>>
           /\ eqs = eqs0
           /\ objectives = objectives0
           /\ childlists = <<<<>>>>

\* a call on an unbuilt equilibrium with a scalar objective has raised
C1_Witness ==
    /\ pc = "raised"
    /\ eqs0[inp.eq].objective # 0
    /\ objectives0[eqs0[inp.eq].objective].scalar
    /\ ~eqs0[inp.eq].built
    /\ inp.order = 2
    /\ calls = <<>>

\* C2: a call with order=0 whose deltas are all None or all zero returns an
\* equilibrium whose x and six parameter blocks equal those the input had at
\* the call; with copy=True the returned object is not the input.
C2_NoOpReturnsSameState ==
    (Finished /\ inp.order = 0 /\ \A k \in 1..6 : ~Effective(k))
        => /\ outcome.kind = "return"
           /\ StateOf(eqs[outcome.value]) = StateOf(eqs0[inp.eq])
           /\ inp.copy => outcome.value # inp.eq

\* an order-0 call with an all-zero dRb and a state off the root of the
\* objective has returned a copy
C2_Witness ==
    /\ Finished
    /\ inp.order = 0
    /\ \A k \in 1..6 : ~Effective(k)
    /\ inp.d[1] # None
    /\ inp.copy
    /\ outcome.kind = "return"
    /\ compute(args) # RZero

\* C3: with copy=True, whatever the deltas and the order, the returned
\* equilibrium is not the input and has the input as its parent, and the
\* input keeps, at every step of the call, its x, its six parameter blocks,
\* its objective and that objective's boundary-constraint operator.
C3_CopyLeavesInputUntouched ==
    (Called /\ inp.copy)
        => /\ StateOf(eqs[inp.eq]) = StateOf(eqs0[inp.eq])
           /\ eqs[inp.eq].objective = eqs0[inp.eq].objective
           /\ eqs[inp.eq].objective # 0 =>
                  objectives[eqs[inp.eq].objective].BC_constraint
                      = objectives0[eqs0[inp.eq].objective].BC_constraint
           /\ Finished => /\ outcome.kind = "return"
                          /\ outcome.value # inp.eq
                          /\ eqs[outcome.value].parent = inp.eq

\* a second-order call with a boundary delta has returned a copy whose state
\* and boundary-constraint operator differ from the input's
C3_Witness ==
    /\ Finished
    /\ inp.copy
    /\ inp.order = 2
    /\ BoundaryChanged(deltas)
    /\ eqs[outcome.value].x # eqs[inp.eq].x
    /\ objectives[eqs[outcome.value].objective].BC_constraint
           # objectives[eqs[inp.eq].objective].BC_constraint

\* C4: in the returned equilibrium every block whose delta was passed with a
\* nonzero entry is the old block plus the delta, every block whose delta is
\* None or all zero is the old block, and the perturbed blocks are exactly
\* the former.
C4_BlocksUpdatedByDelta ==
    Finished
        => \A k \in 1..6 :
              /\ GetBlock(eqs[outcome.value], BlockKeys[k])
                     = IF Effective(k)
                       THEN VecAdd(GetBlock(eqs0[inp.eq], BlockKeys[k]), inp.d[k])
                       ELSE GetBlock(eqs0[inp.eq], BlockKeys[k])
              /\ Effective(k) <=> \E j \in 1..Len(deltas) : deltas[j][1] = BlockKeys[k]

\* a call with a nonzero dp and an all-zero dZb has returned
C4_Witness ==
    /\ Finished
    /\ Effective(3)
    /\ inp.d[2] # None
    /\ ~Effective(2)
    /\ eqs[outcome.value].p_l # eqs0[inp.eq].p_l
    /\ eqs[outcome.value].Zb_mn = eqs0[inp.eq].Zb_mn


\* the trust-region solves made so far, as positions in the log of calls
Solves == {i \in 1..Len(calls) : calls[i].op = "trust_region_step_exact"}

\* the last entry of the log is a solve that returned a step
JustSolved ==
    /\ calls # <<>>
    /\ calls[Len(calls)].op = "trust_region_step_exact"
    /\ sol.raised = ""

\* the first solve has returned its step dx1; the second has returned dx2
HasDx1 ==
    /\ \/ pc \in {"order2", "solve2", "copy", "update", "bc", "recover", "return", "done"}
       \/ pc = "raised" /\ \E i \in Solves : calls[i].arg.step = 2
    /\ inp.order >= 1
HasDx2 ==
    /\ pc \in {"copy", "update", "bc", "recover", "return", "done"}
    /\ inp.order >= 2

\* the arguments (y, c) of the objective for the input as it was at the call
Args0 ==
    LET e == eqs0[inp.eq]
    IN  <<project(objectives0[e.objective].BC_constraint, e.x),
          e.Rb_mn, e.Zb_mn, e.p_l, e.i_l, e.Psi, e.zeta_ratio>>

\* C5: every trust-region solve is handed a scalar radius: the first
\* r1 * ||y|| and the second r2 * ||dx1||, where (r1, r2) is the pair passed
\* as tr_ratio, or (r, r) for a scalar r.
C5_RadiusPerOrder ==
    \A i \in Solves :
        LET a == calls[i].arg
            r == UnpackTrRatio(inp.tr_ratio)[a.step].v[1]
        IN  a.Delta = Scalar(RMul(r, norm(IF a.step = 1 THEN y ELSE dx1)))

C7_InsideRegionReturnsDx0 ==
    JustSolved =>
        LET a == calls[Len(calls)].arg
            dx0 == RNeg(RMul(PseudoInverse(a.usv, TrThreshold), a.f))
        IN  RLe(norm(dx0), a.Delta.v[1]) => sol = TrDone(dx0, FALSE, RZero, 0, FALSE)

\* a solve whose nonzero unconstrained solution lies inside the region
C7_Witness ==
    /\ JustSolved
    /\ sol.dx # RZero
    /\ RLt(norm(RMul(PseudoInverse(usv, TrThreshold), calls[Len(calls)].arg.f)),
           calls[Len(calls)].arg.Delta.v[1])
    /\ ~sol.hit

\* C8: when perturb(eq, ..., order=1) is followed by perturb(eq, ..., order=2)
\* with the same deltas, tr_ratio and Jx, the second call computes the dx1 of
\* the first, and its result with dx2 taken as zero is the first call's result.
C8_OrderConsistency ==
    first.set =>
        /\ HasDx1 => dx1 = first.dx1
        /\ pc = "recover" =>
               LET bc == objectives[eqs[eq_new].objective].BC_constraint
               IN  StateOf(SetX(eqs[eq_new], recover(bc, RAdd(y, dx1))))
                       = StateOf(first.eq)

\* the second-order call of such a pair has returned, with a delta, a nonzero
\* first-order step and a nonzero second-order step
C8_Witness ==
    /\ first.set
    /\ Finished
    /\ deltas # <<>>
    /\ dx1 # RZero
    /\ dx2 # RZero
    /\ eqs[outcome.value].x # first.eq.x

\* C9: when every delta is None or all zero, the right-hand side of the
\* first solve is compute(y, c) of the input, and dx1 is the solver's step
\* for that right-hand side.
C9_ZeroDeltasBaseResidual ==
    (Called /\ \A k \in 1..6 : ~Effective(k)) =>
        /\ \A i \in Solves :
               calls[i].arg.step = 1 => calls[i].arg.f = compute(Args0)
        /\ HasDx1 =>
               dx1 = trust_region_step_exact(1, 1, compute(Args0), usv.u, usv.s, usv.vt,
                         TimesNorm(inp.tr_ratio, norm(Args0[1])), None,
                         TrRtol, TrMaxIter, TrThreshold).dx

\* a first-order call with an all-zero dp on a state off the root has made
\* its step
C9_Witness ==
    /\ pc = "done"
    /\ inp.order = 1
    /\ \A k \in 1..6 : ~Effective(k)
    /\ inp.d[3] # None
    /\ dx1 # RZero
    /\ compute(Args0) # RZero

\* C10: a solve handed a scalar radius that is not positive raises
\* InvalidArgumentError and returns no step, and perturb() ends with that
\* error; so no call with a scalar tr_ratio <= 0 or ||y|| = 0 at order >= 1,
\* or with ||dx1|| = 0 at order 2, returns.
C10_NonPositiveRadiusRaises ==
    /\ \A i \in Solves :
           (calls[i].arg.Delta.kind = "scalar" /\ RLe(calls[i].arg.Delta.v[1], RZero))
               => /\ i = Len(calls)
                  /\ pc = "raised"
                  /\ outcome = Raised("InvalidArgumentError")
                  /\ sol.dx = None
    /\ Finished =>
           /\ (inp.order >= 1 /\ inp.tr_ratio.kind = "scalar")
                  => /\ RLt(RZero, inp.tr_ratio.v[1])
                     /\ norm(Args0[1]) # RZero
           /\ inp.order >= 2 => dx1 # RZero

\* a second-order call on a root of the residual: dx1 = 0, and the second
\* solve raised
C10_Witness ==
    /\ pc = "raised"
    /\ inp.order = 2
    /\ dx1 = RZero
    /\ calls[Len(calls)].arg.step = 2
    /\ calls[Len(calls)].arg.Delta = Scalar(RZero)
    /\ outcome = Raised("InvalidArgumentError")


\* C12: the cutoff passed to perturb() decides which singular values of Jx
\* count as zero in the steps: when no singular value is above
\* cutoff * s_max, nothing is retained and dx1 and dx2 are zero.
C12_CutoffSelectsSingularValues ==
    (HasDx1 /\ ~RLt(RMul(inp.cutoff, usv.s), usv.s))
        => /\ dx1 = RZero
           /\ HasDx2 => dx2 = RZero


\* the values the setters of a Configuration write
ValuesOf(e) == <<e.x, e.R_lmn, e.Z_lmn, e.L_lmn, e.Rb_mn, e.Zb_mn, e.p_l, e.i_l, e.Psi>>

\* C13: after new = c.copy() with deepcopy=True, a setter call through new
\* leaves every value of c as it was, and a setter call through c leaves
\* every value of new as it was.
C13_DeepCopyIndependent ==
    [][(pc = "config" /\ calls[1].arg.deepcopy)
         => LET l == calls'[Len(calls')].arg
            IN  /\ l.ref = "new" => ValuesOf(eqs'[1]) = ValuesOf(eqs[1])
                /\ l.ref = "c" => ValuesOf(eqs'[eq_new]) = ValuesOf(eqs[eq_new])]_vars

\* a deep copy and its original after new.x and c.Rb_mn were set
C13_Witness ==
    /\ pc = "config"
    /\ calls[1].arg.deepcopy
    /\ Len(calls) = 3
    /\ calls[2].arg = [ref |-> "new", attr |-> "x"]
    /\ calls[3].arg = [ref |-> "c", attr |-> "Rb_mn"]
    /\ eqs[eq_new].x = SetterValue("new", "x")
    /\ eqs[1].x = eqs0[1].x
    /\ eqs[1].Rb_mn = SetterValue("c", "Rb_mn")
    /\ eqs[eq_new].Rb_mn = eqs0[1].Rb_mn


\* C14: a call with order=0 makes no state correction: jac_x, compute, jvp,
\* jvp2, the SVD and the trust-region solver are never invoked, dx1 and dx2
\* stay zero, and after project the call goes on to the copy.
C14_OrderZeroSkipsCorrection ==
    (Called /\ inp.order = 0)
        => /\ \A i \in 1..Len(calls) :
                  calls[i].op \notin {"jac_x", "compute", "jvp", "jvp2", "svd",
                                      "trust_region_step_exact"}
           /\ pc \notin {"svd", "rhs1", "solve1", "solve2"}
           /\ pc \in {"order1", "order2", "copy", "update", "bc", "recover", "return", "done"}
                  => dx1 = RZero /\ dx2 = RZero

\* an order-0 call with a boundary delta has returned: it projected, copied
\* and rebuilt the constraint, and did nothing else
C14_Witness ==
    /\ Finished
    /\ inp.order = 0
    /\ BoundaryChanged(deltas)
    /\ eqs0[inp.eq].built
    /\ Len(calls) = 3
    /\ calls[1].op = "project"
    /\ calls[2].op = "copy"
    /\ calls[3].op = "BoundaryConstraint"


\* the boundary-constraint operator of an equilibrium of the heap
BCOf(e) == objectives[eqs[e].objective].BC_constraint

\* C15: for every order and every set of deltas the state vector of the
\* returned equilibrium is recover(y + dx1 + dx2) through the returned
\* equilibrium's own boundary-constraint operator, with y = project(x_old)
\* and dx1, dx2 zero when the order leaves them out.
C15_ReturnedStateIsRecovered ==
    Finished
        => /\ y = project(objectives0[eqs0[inp.eq].objective].BC_constraint, eqs0[inp.eq].x)
           /\ eqs[outcome.value].x = recover(BCOf(outcome.value), RAdd(RAdd(y, dx1), dx2))


\* the positions of the calls of one collaborator in the log
CallsOf(op) == {i \in 1..Len(calls) : calls[i].op = op}

\* block k of the input after its delta, if it has an effective one
PostDelta(k) ==
    IF Effective(k) THEN VecAdd(GetBlock(eqs0[inp.eq], BlockKeys[k]), inp.d[k])
    ELSE GetBlock(eqs0[inp.eq], BlockKeys[k])

\* C16: the boundary-constraint operator is rebuilt only when dRb or dZb has
\* a nonzero entry, and then it is; otherwise the returned equilibrium's
\* operator is the one the input had at the call.
C16_RebuildIffBoundaryDelta ==
    Called
        => /\ CallsOf("BoundaryConstraint") # {} => (Effective(1) \/ Effective(2))
           /\ Finished =>
                 IF Effective(1) \/ Effective(2)
                 THEN /\ Cardinality(CallsOf("BoundaryConstraint")) = 1
                      /\ BCOf(outcome.value) = BoundaryConstraint(PostDelta(1), PostDelta(2))
                 ELSE BCOf(outcome.value)
                          = objectives0[eqs0[inp.eq].objective].BC_constraint

\* a first-order call with a nonzero dp and an all-zero dRb has returned
\* without a rebuild
C16_Witness ==
    /\ Finished
    /\ inp.order = 1
    /\ inp.d[1] # None
    /\ ~Effective(1)
    /\ Effective(3)
    /\ CallsOf("BoundaryConstraint") = {}
    /\ CallsOf("recover") # {}

\* C17: the deltas are applied before the operator is rebuilt and the
\* operator is rebuilt before x is recovered: a rebuilt operator is made from
\* the boundary coefficients after their deltas, a recover after a boundary
\* delta comes after the rebuild, and the recovered x is the one that
\* operator gives.
C17_ApplyThenRebuildThenRecover ==
    Called
        => /\ \A i \in CallsOf("BoundaryConstraint") :
                  /\ calls[i].arg = <<PostDelta(1), PostDelta(2)>>
                  /\ \A k \in 1..6 : GetBlock(eqs[eq_new], BlockKeys[k]) = PostDelta(k)
           /\ \A j \in CallsOf("recover") :
                  (Effective(1) \/ Effective(2))
                      => \E i \in CallsOf("BoundaryConstraint") : i < j
           /\ CallsOf("recover") # {} =>
                 eqs[eq_new].x = recover(BoundaryConstraint(PostDelta(1), PostDelta(2)),
                                         RAdd(RAdd(y, dx1), dx2))

\* a first-order call with a nonzero dRb has returned a state on the new
\* boundary
C17_Witness ==
    /\ Finished
    /\ inp.order = 1
    /\ Effective(1)
    /\ eqs[outcome.value].x[1] = Q(SumSeq(PostDelta(1)))
    /\ eqs[outcome.value].x[1] # eqs0[inp.eq].x[1]


\* the blocks with an effective delta, in argument order, and their deltas
EffInds == SelectSeq(<<1, 2, 3, 4, 5, 6>>, Effective)
EffDc == [k \in 1..Len(EffInds) |-> inp.d[EffInds[k]]]

\* C18: the right-hand side of the first solve is compute(y, c) plus the one
\* product jvp(inds, dc, y, c) over exactly the blocks with a nonzero delta,
\* and its radius is the scalar tr_ratio_1 * ||y|| with y = project(x).
C18_FirstSolveInputs ==
    \A i \in Solves :
        calls[i].arg.step = 1
            => /\ calls[i].arg.f = RAdd(compute(Args0), jvp(EffInds, EffDc, Args0))
               /\ \E j \in 1..(i - 1) :
                      /\ CallsOf("jvp") = {j}
                      /\ calls[j].arg = <<EffInds, EffDc, Args0>>
               /\ calls[i].arg.Delta
                      = Scalar(RMul(UnpackTrRatio(inp.tr_ratio)[1].v[1], norm(Args0[1])))

\* C19: the right-hand side of the second solve is
\* 0.5 jvp2(0, 0, dx1, dx1) + 0.5 jvp2(inds, inds, dc, dc) + jvp2(0, inds, dx1, dc)
\* over the blocks with a nonzero delta and nothing else: the residual and
\* the first-order product are not in it, and each product is taken once.
C19_SecondSolveRhs ==
    \A i \in Solves :
        calls[i].arg.step = 2
            => /\ calls[i].arg.f
                      = RAdd(RAdd(RMul(<<1, 2>>, jvp2(StateArg, StateArg, dx1, dx1, Args0)),
                                  RMul(<<1, 2>>, jvp2(EffInds, EffInds, EffDc, EffDc, Args0))),
                             jvp2(StateArg, EffInds, dx1, EffDc, Args0))
               /\ Cardinality(CallsOf("jvp2")) = 3
               /\ Cardinality(CallsOf("compute")) = 1
               /\ Cardinality(CallsOf("jvp")) = 1

\* a second solve whose right-hand side and first-order right-hand side are
\* both nonzero and differ
C19_Witness ==
    /\ pc = "copy"
    /\ inp.order = 2
    /\ deltas # <<>>
    /\ Cardinality(Solves) = 2
    /\ RHS # RZero
    /\ \E i \in Solves : /\ calls[i].arg.step = 1
                         /\ calls[i].arg.f # RZero
                         /\ calls[i].arg.f # RHS

\* the state Jacobian of the call: the one passed, or jac_x at (y, c)
StateJacobian == IF inp.Jx = None THEN jac_x(Args0) ELSE inp.Jx

\* C20: a call factorizes once at most, and what it factorizes is the state
\* Jacobian; the factorization comes before the first solve, and every solve
\* of the call, the second included, is handed those factors.
C20_OneFactorization ==
    Called
        => /\ Cardinality(CallsOf("svd")) <= 1
           /\ \A k \in CallsOf("svd") : calls[k].arg = StateJacobian
           /\ \A i \in Solves :
                  /\ \E k \in CallsOf("svd") : k < i
                  /\ calls[i].arg.usv = svd(StateJacobian)

\* a second-order call has made both solves
C20_Witness ==
    /\ pc = "copy"
    /\ inp.order = 2
    /\ inp.Jx = None
    /\ Cardinality(Solves) = 2
    /\ Cardinality(CallsOf("svd")) = 1
    /\ sol.raised = ""
    /\ dx2 # RZero

\* the call has factorized its state Jacobian
Factorized == CallsOf("svd") # {}

\* C21: in a call with order >= 1, a Jacobian passed as Jx keeps jac_x from
\* being invoked and is the matrix that is factorized; with Jx=None jac_x is
\* invoked once, at the call's own (y, c), before the factorization, and its
\* result is what is factorized.  A later call on the same equilibrium does
\* the same again: it takes nothing from the call before it.
C21_JacobianPassedOrComputedOnce ==
    (Called /\ inp.order >= 1)
        => /\ inp.Jx # None =>
                 /\ CallsOf("jac_x") = {}
                 /\ \A k \in CallsOf("svd") : calls[k].arg = inp.Jx
           /\ inp.Jx = None =>
                 /\ Cardinality(CallsOf("jac_x")) <= 1
                 /\ \A j \in CallsOf("jac_x") : calls[j].arg = Args0
                 /\ \A k \in CallsOf("svd") :
                        /\ calls[k].arg = jac_x(Args0)
                        /\ \E j \in CallsOf("jac_x") : j < k
           /\ (Finished \/ Solves # {}) => Factorized

\* the order-2 call that follows an order-1 call, both with a Jacobian
\* passed in, has returned after factorizing that Jacobian
C21_Witness ==
    /\ first.set
    /\ Finished
    /\ inp.Jx # None
    /\ CallsOf("jac_x") = {}
    /\ \E k \in CallsOf("svd") : calls[k].arg = inp.Jx /\ inp.Jx # jac_x(Args0)


\* the index and direction arguments handed to the objective for the
\* parameter blocks: (inds, dc) of every jvp call, and of every jvp2 call
\* each argument pair that is not the state's (0, dx1)
BlockSelections ==
    {<<calls[i].arg[1], calls[i].arg[2]>> : i \in CallsOf("jvp")}
        \cup {<<calls[i].arg[1], calls[i].arg[3]>> :
                  i \in {j \in CallsOf("jvp2") : calls[j].arg[1] # StateArg}}
        \cup {<<calls[i].arg[2], calls[i].arg[4]>> :
                  i \in {j \in CallsOf("jvp2") : calls[j].arg[2] # StateArg}}

\* C22: within one call jvp and every jvp2 that differentiates with respect
\* to parameter blocks are passed one and the same tuple inds and tuple dc;
\* inds holds exactly the blocks whose delta has a nonzero entry, with
\* indices in 1..6 in increasing order (Rb_mn=1, ..., zeta_ratio=6), and
\* dc[k] is the delta of block inds[k].
C22_BlockIndicesFixedAndAligned ==
    Called
        => /\ Cardinality(BlockSelections) <= 1
           /\ \A sel \in BlockSelections :
                  LET inds == sel[1]
                      dc == sel[2]
                  IN  /\ Len(dc) = Len(inds)
                      /\ \A k \in 1..Len(inds) :
                             /\ inds[k] \in 1..6
                             /\ Effective(inds[k])
                             /\ dc[k] = inp.d[inds[k]]
                             /\ BlockKeys[inds[k]] = deltas[k][1]
                      /\ \A k \in 1..(Len(inds) - 1) : inds[k] < inds[k + 1]
                      /\ \A b \in 1..6 :
                             Effective(b) => \E k \in 1..Len(inds) : inds[k] = b

\* a second-order call with a nonzero dZb, a nonzero di and nothing else has
\* taken its jvp and its three jvp2 with inds = (2, 4)
C22_Witness ==
    /\ pc = "solve2"
    /\ Cardinality(CallsOf("jvp2")) = 3
    /\ Cardinality(CallsOf("jvp")) = 1
    /\ BlockSelections = {<<<<2, 4>>, <<inp.d[2], inp.d[4]>>>>}
    /\ inp.d[2] # inp.d[4]


\* the calls that need a built equilibrium: project and the objective's
\* compute, jac_x, jvp and jvp2
NeedBuilt ==
    {i \in 1..Len(calls) : calls[i].op \in {"project", "compute", "jac_x", "jvp", "jvp2"}}

\* C23: a call that gets past the test of its objective invokes eq.build()
\* when the equilibrium was not built at the call, once, and not when it was
\* built; the invocation comes before project(x) and before every compute,
\* jac_x, jvp and jvp2 of the call, which all find the equilibrium built.
C23_BuildIffNotBuiltAndFirst ==
    Called
        => /\ CallsOf("build") # {} => ~eqs0[inp.eq].built
           /\ Cardinality(CallsOf("build")) <= 1
           /\ NeedBuilt # {} =>
                 /\ eqs[inp.eq].built
                 /\ ~eqs0[inp.eq].built => CallsOf("build") # {}
           /\ \A b \in CallsOf("build") : \A i \in NeedBuilt : b < i

\* a second-order call on an equilibrium that was not built has built it,
\* projected and taken every derivative
C23_Witness ==
    /\ pc = "solve2"
    /\ ~eqs0[inp.eq].built
    /\ inp.Jx = None
    /\ calls[1].op = "build"
    /\ calls[2].op = "project"
    /\ {calls[i].op : i \in NeedBuilt} = {"project", "compute", "jac_x", "jvp", "jvp2"}


\* a collaborator called after the objective test has raised
CollaboratorRaised == pc = "raised" /\ calls # <<>>

StageRank(p) ==
    CASE p = "idle" -> 0
      [] p = "validate" -> 1
      [] p = "collect" -> 2
      [] p = "build" -> 3
      [] p = "project" -> 4
      [] p = "order1" -> 5
      [] p = "svd" -> 6
      [] p = "rhs1" -> 7
      [] p = "solve1" -> 8
      [] p = "order2" -> 9
      [] p = "solve2" -> 10
      [] p = "copy" -> 11
      [] p = "update" -> 12
      [] p = "bc" -> 13
      [] p = "recover" -> 14
      [] p = "return" -> 15
      [] OTHER -> 16

\* the call has returned or raised
Terminated == pc \in {"done", "raised"}

\* the resources a call has used so far are within their limits
WithinLimits ==
    /\ Cardinality(CallsOf("jac_x")) <= 1
    /\ Cardinality(CallsOf("svd")) <= 1
    /\ Cardinality(Solves) <= 2
    /\ \A i \in Solves : \A j \in Solves : i < j => calls[i].arg.step < calls[j].arg.step
    /\ (Solves # {} /\ sol.raised = "") => sol.iters <= TrMaxIter

ChildrenOf(c) == Range(childlists[eqs[c].children])

\* C26: after Configuration.copy() calls, deep or shallow, k is in
\* c.children exactly when k.parent is c, for all configurations c and k;
\* no configuration is in its own children list.
C26_LineageConsistent ==
    \A c \in 1..Len(eqs) :
        /\ \A k \in 1..Len(eqs) : (k \in ChildrenOf(c)) <=> (eqs[k].parent = c)
        /\ c \notin ChildrenOf(c)


\* C27: a call with copy=False returns the object it was given.  No object
\* was created and no child was appended to any children list; the object
\* itself now has each block plus its delta, the boundary-constraint
\* operator of the new boundary when dRb or dZb has a nonzero entry, and,
\* when order >= 1, the state vector recovered from y + dx1 + dx2.
C27_InPlaceReturnsSameObject ==
    (Finished /\ ~inp.copy)
        => /\ outcome = Returned(inp.eq)
           /\ Len(eqs) = Len(eqs0)
           /\ Len(objectives) = Len(objectives0)
           /\ childlists = <<<<>>>>
           /\ eqs[inp.eq].children = eqs0[inp.eq].children
           /\ eqs[inp.eq].parent = eqs0[inp.eq].parent
           /\ CallsOf("copy") = {}
           /\ \A k \in 1..6 : GetBlock(eqs[inp.eq], BlockKeys[k]) = PostDelta(k)
           /\ BCOf(inp.eq) = BoundaryConstraint(PostDelta(1), PostDelta(2))
           /\ inp.order >= 1 =>
                  eqs[inp.eq].x = recover(BCOf(inp.eq), RAdd(RAdd(y, dx1), dx2))

\* a second-order call with copy=False, a nonzero dRb and a nonzero dp has
\* returned its input with another boundary, profile and state
C27_Witness ==
    /\ Finished
    /\ ~inp.copy
    /\ inp.order = 2
    /\ Effective(1)
    /\ Effective(3)
    /\ outcome.value = inp.eq
    /\ eqs[inp.eq].x # eqs0[inp.eq].x
    /\ eqs[inp.eq].x[3] # eqs0[inp.eq].x[3]
    /\ BCOf(inp.eq) # objectives0[eqs0[inp.eq].objective].BC_constraint


\* the point (y, c) at which each evaluation of the objective in the log was
\* taken
EvaluationPoints ==
    {calls[i].arg : i \in CallsOf("compute") \cup CallsOf("jac_x")}
        \cup {calls[i].arg[3] : i \in CallsOf("jvp")}
        \cup {calls[i].arg[5] : i \in CallsOf("jvp2")}

\* the calls that write: eq.copy(), the rebuild of the operator, recover
Writes == CallsOf("copy") \cup CallsOf("BoundaryConstraint") \cup CallsOf("recover")

\* C28: compute, jac_x, jvp and every jvp2 of a call are evaluated at one
\* point, y = project(x) and the six blocks the input had at the call.  As
\* long as the solves are not over (and when one of them raised) the input
\* has the x, blocks and operator it had at the call and no object was
\* created, with copy=False as with copy=True; every write comes after
\* every evaluation and every solve.
C28_EvaluatedAtUnperturbedPoint ==
    Called
        => /\ EvaluationPoints \subseteq {Args0}
           /\ StageRank(pc) <= StageRank("copy") \/ pc = "raised" =>
                  /\ StateOf(eqs[inp.eq]) = StateOf(eqs0[inp.eq])
                  /\ objectives = objectives0
                  /\ Len(eqs) = Len(eqs0)
                  /\ childlists = <<<<>>>>
                  /\ Writes = {}
           /\ \A w \in Writes : \A i \in 1..Len(calls) :
                  calls[i].op \in {"compute", "jac_x", "jvp", "jvp2",
                                   "trust_region_step_exact"} => i < w

\* a second-order call with copy=False and a nonzero delta has made both
\* solves, with a nonzero first step, and has not written yet
C28_Witness ==
    /\ pc = "copy"
    /\ ~inp.copy
    /\ inp.order = 2
    /\ inp.Jx = None
    /\ deltas # <<>>
    /\ dx1 # RZero
    /\ Cardinality(Solves) = 2
    /\ Cardinality(CallsOf("jvp2")) = 3
    /\ EvaluationPoints = {Args0}


\* C29: after any sequence of x, R_lmn, Z_lmn and L_lmn setter calls and
\* change_resolution calls on a configuration or on its copy, the x of every
\* configuration is the concatenation of its R_lmn, Z_lmn and L_lmn, in
\* that order.
C29_StateVectorIsConcatenation ==
    \A e \in 1..Len(eqs) :
        eqs[e].x = eqs[e].R_lmn \o eqs[e].Z_lmn \o eqs[e].L_lmn

\* c was taken to two modes per basis and its Z_lmn was then set: x has six
\* entries, the third and fourth being the new Z_lmn
C29_Witness ==
    /\ pc = "config"
    /\ Len(calls) = 3
    /\ calls[2] = [op |-> "change_resolution", arg |-> [ref |-> "c", n |-> 2]]
    /\ calls[3] = [op |-> "set", arg |-> [ref |-> "c", attr |-> "Z_lmn"]]
    /\ Len(eqs[1].x) = 6
    /\ SubSeq(eqs[1].x, 3, 4) = SetterValueAt("c", "Z_lmn", 2)
    /\ eqs[1].x[2] = RZero
    /\ eqs[1].x[1] = eqs0[1].x[1]


\* C30: get_system_derivatives returns the pair (Jx, Jc) for pert_order=1,
\* the five arrays (Jx, Jc, Jxx, Jcc, Jxc) for pert_order=2 and None for any
\* other order; Jc holds one group of columns for each block listed in
\* arg_dict, in the order of arg_dict, and none for the other blocks.
C30_DerivativesByOrder ==
    (pc \in {"done", "raised"})
        => /\ outcome.kind = "return"
           /\ Len(outcome.value) = CASE inp.pert_order = 1 -> 2
                                      [] inp.pert_order = 2 -> 5
                                      [] OTHER -> 0


===========================================================================
